---- MODULE Spec2Model ----
(***************************************************************************)
(* A model of the AxumSession transport codec (src/src/headers.rs) and of  *)
(* the session handle (src/src/session.rs).                                *)
(*                                                                         *)
(* Six state machines share the module:                                    *)
(*   SpecAead   encrypt / decrypt of the header transport (rest_mode)      *)
(*   SpecCodec  set_headers, the client, get_headers_and_key               *)
(*   Spec       the session store and the per-request session handle       *)
(*   SpecNew    the constructor against every populated store              *)
(*   SpecRace   the constructor run by two requests without an inbound id  *)
(*   SpecTap    two calls on one session, in the steps of tap              *)
(***************************************************************************)
EXTENDS Integers, Sequences, FiniteSets, TLC

VARIABLES
    aead,       \* SpecAead: the inputs, the envelope and the result of decrypt
    cfg,        \* SpecCodec: SessionConfig (variant, security_mode, opt_in, key, prefix)
    cpc,        \* SpecCodec: position in the emit / present / extract exchange
    keystore,   \* SpecCodec: the per-session keys the Session Key Manager can load
    emitted,    \* SpecCodec: the inputs of the last set_headers call
    response,   \* SpecCodec: the response fields set_headers wrote (name -> field)
    request,    \* SpecCodec: the inbound fields of the next request (name -> value)
    extracted,  \* SpecCodec: the result of get_headers_and_key
    store,      \* Spec: store.inner, id string -> SessionData; config; backend
    handle,     \* Spec: per request, the handle AxumSession::new built and its pc
    last,       \* Spec: the last handle operation and what it returned
    opcount     \* Spec: the number of handle operations performed so far

vars == <<aead, cfg, cpc, keystore, emitted, response, request, extracted,
          store, handle, last, opcount>>

aeadVars  == <<aead>>
codecVars == <<cfg, cpc, keystore, emitted, response, request, extracted>>
storeVars == <<store, handle, last, opcount>>

(***************************************************************************)
(* Bounds of the model.                                                    *)
(***************************************************************************)
\* Uuid values are 1 .. NumUuids.
NumUuids == 3
\* 256-bit key materials are 1 .. NumKeys.
NumKeys == 4
\* Handle operations performed in one run.
MaxOps == 2

(***************************************************************************)
(* Program constants.                                                      *)
(***************************************************************************)
NONCE_LEN == 12
TAG_LEN == 16

(***************************************************************************)
(* Strings, Uuids and keys.                                                *)
(***************************************************************************)
\* A nonce is 96 random bits; two values tell equal nonces from different ones.
Nonces == {0, 1}
KeyMaterials == 1 .. NumKeys

\* SessionConfig.session_name, store_name, key_name: three distinct names.
SessionName == "session"
StoreName == "store"
KeyName == "session_key"
BaseNames == {SessionName, StoreName, KeyName}
HostPrefix == "__Host-"
FieldNames == BaseNames \cup { HostPrefix \o n : n \in BaseNames }
Uuids == 1 .. NumUuids

\* Uuid::to_string (SessionID::inner): the hyphenated text of a Uuid.
UuidText(u) == "uuid-" \o ToString(u)

UuidTexts == { UuidText(u) : u \in Uuids }

\* The plaintext strings that can travel in a field.
Strings == UuidTexts \cup {"true", "false", "", "junk"}

\* str::as_bytes().len(): a hyphenated Uuid is 36 bytes.
ByteLen(s) ==
    CASE s \in UuidTexts -> 36
      [] s = "true"      -> 4
      [] s = "false"     -> 5
      [] s = "junk"      -> 4
      [] OTHER           -> 0

\* The position of a string in a fixed enumeration: its numeric content for
\* the stream cipher below.
StrCode(s) ==
    CASE s = ""      -> 0
      [] s = "true"  -> 1
      [] s = "false" -> 2
      [] s = "junk"  -> 3
      [] OTHER       -> 3 + (CHOOSE u \in Uuids : UuidText(u) = s)

CodeMod == 4 + Cardinality(Uuids)

CodeStr(c) == CHOOSE s \in Strings : StrCode(s) = c

\* Result<T, E> and Option<T> as records of one shape.
Ok(v)  == [ok |-> TRUE, val |-> v, err |-> ""]
Err(e) == [ok |-> FALSE, val |-> "", err |-> e]
None == [some |-> FALSE, v |-> 0]
NoneStr == [some |-> FALSE, v |-> ""]
Some(v) == [some |-> TRUE, v |-> v]

\* Uuid::parse_str: only the text of a Uuid parses ("base64", the text of an
\* envelope, does not).
ParseUuid(s) ==
    IF s \in UuidTexts THEN Some(CHOOSE u \in Uuids : UuidText(u) = s) ELSE None

\* str::parse::<bool>(): "true" and "false" parse, nothing else does.
\* c.parse().unwrap_or(false)
ParseBoolOrFalse(s) == s = "true"

\* bool::to_string
BoolText(b) == IF b THEN "true" ELSE "false"

(***************************************************************************)
(* AES-256-GCM, as the code uses it: a stream cipher keyed by (key, nonce) *)
(* and a tag over (key, nonce, aad, ciphertext).  The tag is symbolic: it  *)
(* verifies exactly when all four agree with what it was computed from.    *)
(***************************************************************************)
NoTag == [key |-> 0, nonce |-> 0, aad |-> "", ct |-> 0, ctlen |-> 0]

Gmac(key, nonce, aad, ct, ctlen) ==
    [key |-> key, nonce |-> nonce, aad |-> aad, ct |-> ct, ctlen |-> ctlen]

Keystream(key, nonce) == 5 * key + 3 * nonce + 1

\* A byte vector Vec<u8> laid out as decrypt reads it: its total length, the
\* first NONCE_LEN bytes (nonce), the body (ct, of ctlen bytes) and the
\* trailing TAG_LEN bytes (tag).  A vector shorter than that has only a length.
ByteVec(len, nonce, ct, ctlen, tag) ==
    [len |-> len, nonce |-> nonce, ct |-> ct, ctlen |-> ctlen, tag |-> tag]

ShortVec(len) == ByteVec(len, 0, 0, 0, NoTag)

\* A field value on the wire (String): a plain string, or the base64 text of
\* a byte vector.
Plain(s) == [b64 |-> FALSE, s |-> s, data |-> ShortVec(0)]

\* general_purpose::STANDARD.encode
Base64Encode(data) == [b64 |-> TRUE, s |-> "", data |-> data]

DecOk(d) == [ok |-> TRUE, data |-> d]
DecErr == [ok |-> FALSE, data |-> ShortVec(0)]

\* general_purpose::STANDARD.decode: the text of a byte vector decodes to it;
\* of the plain strings, "true" and "junk" are four base64 characters (three
\* bytes) and "" decodes to no bytes; "false" (five characters) and the text
\* of a Uuid (hyphens) are not base64.
Base64Decode(v) ==
    CASE v.b64         -> DecOk(v.data)
      [] v.s = "true"  -> DecOk(ShortVec(3))
      [] v.s = "junk"  -> DecOk(ShortVec(3))
      [] v.s = ""      -> DecOk(ShortVec(0))
      [] OTHER         -> DecErr

\* The text of a wire value as a &str: base64 text of a sealed envelope is
\* none of the plaintext strings.
TextOf(v) == IF v.b64 THEN "base64" ELSE v.s

\* SessionError::GenericNotSupportedError(msg): the two messages of decrypt,
\* and the error the `?` on the base64 decode converts to.
LengthError == "length of decoded data is <= NONCE_LEN"
SealError == "invalid key/nonce/value: bad seal"
Base64Error == "base64 decode error"
\* slice::split_at(mid) panics when mid > len.
Panic == "panic"

\* Aes256Gcm::encrypt_in_place_detached(nonce, aad, in_out): the body is
\* enciphered in place and the tag over it returned.
AeadEncryptCt(key, nonce, s) == (StrCode(s) + Keystream(key, nonce)) % CodeMod

\* Aes256Gcm::decrypt(nonce, Payload {msg, aad}): msg is body || tag; fails when
\* msg is shorter than a tag or the tag does not verify, else deciphers.
AeadDecrypt(key, nonce, aad, msg) ==
    IF msg.len < TAG_LEN \/ msg.tag # Gmac(key, nonce, aad, msg.ct, msg.ctlen)
    THEN Err(SealError)
    ELSE Ok(CodeStr((msg.ct - Keystream(key, nonce)) % CodeMod))

\* slice::split_at(NONCE_LEN) of the decoded vector: (nonce, rest).
SplitAtNonce(data) ==
    [panic |-> data.len < NONCE_LEN,
     nonce |-> data.nonce,
     rest  |-> [len |-> data.len - NONCE_LEN, ct |-> data.ct, ctlen |-> data.ctlen,
                tag |-> data.tag]]

\* Fault variant of encrypt: the envelope does not carry the nonce drawn.
encrypt_without_nonce(name, value, key, nonce) ==
    LET ct  == AeadEncryptCt(key, nonce, value)
        tag == Gmac(key, nonce, name, ct, ByteLen(value))
    IN  Base64Encode(ByteVec(NONCE_LEN + ByteLen(value) + TAG_LEN, 0, ct,
                             ByteLen(value), tag))

\* encrypt(name, value, key); nonce is what rng.try_fill_bytes drew.
encrypt(name, value, key, nonce) ==
    LET ct  == AeadEncryptCt(key, nonce, value)
        tag == Gmac(key, nonce, name, ct, ByteLen(value))
    IN  Base64Encode(ByteVec(NONCE_LEN + ByteLen(value) + TAG_LEN, nonce, ct,
                             ByteLen(value), tag))

\* Fault variant of decrypt: no length check before split_at.
decrypt_without_length_check(name, value, key) ==
    LET dec == Base64Decode(value)
        sp  == SplitAtNonce(dec.data)
    IN  IF ~dec.ok THEN Err(Base64Error)
        ELSE IF sp.panic THEN Err(Panic)
        ELSE AeadDecrypt(key, sp.nonce, name, sp.rest)

\* Fault variant of decrypt: the tag is verified against the name it was made
\* for, not the name of the field being read.
decrypt_without_name(name, value, key) ==
    LET dec == Base64Decode(value)
        sp  == SplitAtNonce(dec.data)
    IN  IF ~dec.ok THEN Err(Base64Error)
        ELSE IF dec.data.len <= NONCE_LEN THEN Err(LengthError)
        ELSE IF sp.panic THEN Err(Panic)
        ELSE AeadDecrypt(key, sp.nonce, sp.rest.tag.aad, sp.rest)

\* decrypt(name, value, key) -> Result<String, SessionError>
decrypt(name, value, key) ==
    LET dec == Base64Decode(value)
        sp  == SplitAtNonce(dec.data)
    IN  IF ~dec.ok THEN Err(Base64Error)
        ELSE IF dec.data.len <= NONCE_LEN THEN Err(LengthError)
        ELSE IF sp.panic THEN Err(Panic)
        ELSE AeadDecrypt(key, sp.nonce, name, sp.rest)

\* Values of the store variables where the store plays no part.
NoStore == [inner |-> <<>>, key |-> 0, persistent |-> FALSE, db |-> {}]
NoHandles == <<>>
NoOp ==
    [req |-> 0, op |-> "", ret |-> [some |-> FALSE, v |-> [t |-> "", v |-> ""]],
     n |-> 0, inbound |-> [some |-> FALSE, v |-> 0], created |-> {}]

(***************************************************************************)
(* SpecAead: encrypt and decrypt applied to inputs drawn from the sets     *)
(* above, with the envelope optionally damaged in between.                 *)
(***************************************************************************)
AeadStart ==
    [pc |-> "start", name |-> "", value |-> "", key |-> 0, nonce |-> 0,
     env |-> Plain(""), honest |-> FALSE, dname |-> "", dkey |-> 0,
     result |-> Err("")]

\* What a client can turn a sealed envelope e into.
Damaged(e) ==
    { Base64Encode([e.data EXCEPT !.ct = (@ + 1) % CodeMod]),     \* a body byte flipped
      Base64Encode([e.data EXCEPT !.nonce = @ + Cardinality(Nonces)]),   \* a nonce byte flipped
      Base64Encode([e.data EXCEPT !.tag = NoTag]),                \* a tag byte flipped
      Base64Encode(ByteVec(NONCE_LEN + 8, e.data.nonce, e.data.ct, 8, NoTag)), \* cut inside the tag
      Base64Encode(ShortVec(NONCE_LEN)),                          \* cut to the nonce
      Base64Encode(ShortVec(10)) }                                \* cut to 10 bytes

AeadEncryptStep ==
    /\ aead.pc = "start"
    /\ \E name \in FieldNames, value \in Strings, key \in KeyMaterials, nonce \in Nonces :
          aead' = [aead EXCEPT !.pc = "sealed", !.name = name, !.value = value,
                               !.key = key, !.nonce = nonce, !.honest = TRUE,
                               !.env = encrypt(name, value, key, nonce)]
    /\ UNCHANGED <<codecVars, storeVars>>

AeadDamageStep ==
    /\ aead.pc = "sealed"
    /\ aead.honest
    /\ \E d \in Damaged(aead.env) :
          aead' = [aead EXCEPT !.env = d, !.honest = FALSE]
    /\ UNCHANGED <<codecVars, storeVars>>

\* A value that was never sealed is presented.
AeadForgeStep ==
    /\ aead.pc = "start"
    /\ \E s \in Strings :
          aead' = [aead EXCEPT !.pc = "sealed", !.env = Plain(s), !.honest = FALSE]
    /\ UNCHANGED <<codecVars, storeVars>>

AeadDecryptStep ==
    /\ aead.pc = "sealed"
    /\ \E name \in FieldNames, key \in KeyMaterials :
          aead' = [aead EXCEPT !.pc = "done", !.dname = name, !.dkey = key,
                               !.result = decrypt(name, aead.env, key)]
    /\ UNCHANGED <<codecVars, storeVars>>

(***************************************************************************)
(* The transport codec.                                                    *)
(***************************************************************************)
\* Option<Key>::None
NoKey == 0

\* A finite map with one entry put (HashMap / HeaderMap insert, CookieJar add).
Put(m, k, v) == [x \in (DOMAIN m) \cup {k} |-> IF x = k THEN v ELSE m[x]]
EmptyMap == [x \in {} |-> 0]

\* NameType::get_name(config)
get_name(type, config) ==
    LET name == CASE type = "Data"  -> SessionName
                  [] type = "Store" -> StoreName
                  [] type = "Key"   -> KeyName
    IN  IF config.prefix_with_host THEN HostPrefix \o name ELSE name

\* cookie::PrivateJar: add seals the value with AES-256-GCM under
\* key.encryption(), the cookie's name as associated data, and base64-encodes
\* nonce || body || tag; get undoes it and yields nothing when that fails.
PrivateSeal(name, s, key, nonce) ==
    LET ct == AeadEncryptCt(key, nonce, s)
    IN  Base64Encode(ByteVec(NONCE_LEN + ByteLen(s) + TAG_LEN, nonce, ct, ByteLen(s),
                             Gmac(key, nonce, name, ct, ByteLen(s))))

PrivateUnseal(name, value, key) ==
    LET dec == Base64Decode(value)
    IN  IF ~dec.ok \/ dec.data.len <= NONCE_LEN THEN Err(SealError)
        ELSE AeadDecrypt(key, dec.data.nonce, name,
                         [len |-> dec.data.len - NONCE_LEN, ct |-> dec.data.ct,
                          ctlen |-> dec.data.ctlen, tag |-> dec.data.tag])

\* CookiesExt::get_cookie(name, key) -> Option<Cookie>; the cookie is its value.
get_cookie(jar, name, key) ==
    IF name \notin DOMAIN jar THEN NoneStr
    ELSE IF key # NoKey
         THEN LET r == PrivateUnseal(name, jar[name], key)
              IN  IF r.ok THEN Some(r.val) ELSE NoneStr
         ELSE Some(TextOf(jar[name]))

\* CookiesExt::add_cookie(cookie, key); nonce is what the private jar drew.
add_cookie(jar, cookie, key, nonce) ==
    IF key # NoKey
    THEN Put(jar, cookie.name,
             [cookie EXCEPT !.value = PrivateSeal(cookie.name, TextOf(cookie.value), key, nonce)])
    ELSE Put(jar, cookie.name, cookie)

\* create_cookie(config, value, cookie_type): the attributes other than the
\* name, the value and the expiry play no part in the exchange.
create_cookie(config, value, cookie_type) ==
    [name |-> get_name(cookie_type, config), value |-> Plain(value), removal |-> FALSE]

\* remove_cookie(config, cookie_type): empty value, make_removal().
remove_cookie(config, cookie_type) ==
    [name |-> get_name(cookie_type, config), value |-> Plain(""), removal |-> TRUE]

\* Cookie::encoded / Cookie::parse_encoded: percent-encoding of the value.
\* The base64 alphabet holds '+', '/' and '=', which are escaped; the plain
\* strings of the model hold none.
PctEncode(v) == IF v.b64 THEN [b64 |-> FALSE, s |-> "pct", data |-> v.data] ELSE v
PctDecode(v) == IF ~v.b64 /\ v.s = "pct" THEN [b64 |-> TRUE, s |-> "", data |-> v.data] ELSE v

\* set_cookies(jar, headers): one Set-Cookie line per cookie of the jar's delta.
set_cookies(jar) ==
    [n \in DOMAIN jar |-> [value |-> PctEncode(jar[n].value), removal |-> jar[n].removal]]

\* HeaderName::from_bytes(name) succeeds for a name that is a token, as the
\* configured names are; HeaderValue::from_str(value) succeeds for base64 text
\* and for the text of a Uuid or a bool.
HeaderOk(name) == name \in FieldNames

\* headers.insert(name, value) behind the two if-let checks.
InsertHeader(headers, name, value) ==
    IF HeaderOk(name)
    THEN Put(headers, name, [value |-> value, removal |-> FALSE])
    ELSE headers

\* Fault variant of the Store condition: the condition of the session id.
EmitStore_as_id(config, destroy, storable) == (storable \/ ~config.opt_in) /\ ~destroy

\* Fault variant of the Store condition: is_opt_in() left out.
EmitStore_without_opt_in(config, destroy, storable) == storable /\ ~destroy

\* (storable || !is_opt_in()) && !destroy
EmitId(config, destroy, storable) == (storable \/ ~config.opt_in) /\ ~destroy
\* is_opt_in() && storable && !destroy
EmitStore(config, destroy, storable) == config.opt_in /\ storable /\ ~destroy

\* Fault variant of cookie_key: the static key in every mode.
cookie_key_static(config, session_key) == config.key

\* let cookie_key = match security_mode { PerSession => Some(session_key.key),
\*                                        Simple => config.key }
\* (set_headers), and the same match for `key` in get_headers_and_key.
cookie_key(config, session_key) ==
    IF config.security_mode = "PerSession" THEN session_key.key ELSE config.key

\* set_headers, #[cfg(not(feature = "rest_mode"))]: nonces n[1..3] are those of
\* the three add_cookie calls.
set_headers_cookie(config, id, session_key, destroy, storable, n) ==
    LET jar0 == EmptyMap
        jar1 == IF config.security_mode = "PerSession"
                THEN IF EmitId(config, destroy, storable)
                     THEN add_cookie(jar0, create_cookie(config, UuidText(session_key.id), "Key"),
                                     config.key, n[1])
                     ELSE add_cookie(jar0, remove_cookie(config, "Key"), config.key, n[1])
                ELSE add_cookie(jar0, remove_cookie(config, "Key"), config.key, n[1])
        ckey == cookie_key(config, session_key)
        jar2 == IF EmitId(config, destroy, storable)
                THEN add_cookie(jar1, create_cookie(config, UuidText(id), "Data"), ckey, n[2])
                ELSE add_cookie(jar1, remove_cookie(config, "Data"), ckey, n[2])
        jar3 == IF EmitStore(config, destroy, storable)
                THEN add_cookie(jar2, create_cookie(config, BoolText(storable), "Store"),
                                ckey, n[3])
                ELSE add_cookie(jar2, remove_cookie(config, "Store"), ckey, n[3])
    IN  set_cookies(jar3)

\* set_headers, #[cfg(feature = "rest_mode")]: nonces n[1..3] are those of the
\* three encrypt calls.
set_headers_rest(config, id, session_key, destroy, storable, n) ==
    LET h0 == EmptyMap
        h1 == IF config.security_mode = "PerSession" /\ EmitId(config, destroy, storable)
              THEN LET name == get_name("Key", config)
                       value == IF config.key # NoKey
                                THEN encrypt(name, UuidText(session_key.id), config.key, n[1])
                                ELSE Plain(UuidText(session_key.id))
                   IN  InsertHeader(h0, name, value)
              ELSE h0
        ckey == cookie_key(config, session_key)
        h2 == IF EmitId(config, destroy, storable)
              THEN LET name == get_name("Data", config)
                       value == IF ckey # NoKey
                                THEN encrypt(name, UuidText(id), ckey, n[2])
                                ELSE Plain(UuidText(id))
                   IN  InsertHeader(h1, name, value)
              ELSE h1
        h3 == IF EmitStore(config, destroy, storable)
              THEN LET name == get_name("Store", config)
                       value == IF ckey # NoKey
                                THEN encrypt(name, BoolText(storable), ckey, n[3])
                                ELSE Plain(BoolText(storable))
                   IN  InsertHeader(h2, name, value)
              ELSE h2
    IN  h3

\* set_headers(session, session_key, headers, destroy, storable)
set_headers(config, id, session_key, destroy, storable, n) ==
    IF config.rest_mode
    THEN set_headers_rest(config, id, session_key, destroy, storable, n)
    ELSE set_headers_cookie(config, id, session_key, destroy, storable, n)

\* get_cookies(headers): every cookie of the Cookie header, percent-decoded.
get_cookies(req) == [n \in DOMAIN req |-> PctDecode(req[n])]

\* get_headers(store, headers): the headers under the three configured names.
get_headers(req) == [n \in (DOMAIN req) \cap BaseNames |-> req[n]]

\* SessionKey::get_or_create(store, value): the key stored under the inbound
\* id, else a newly generated one (fresh).
get_or_create(keys, value, fresh) ==
    IF value.some /\ value.v \in DOMAIN keys
    THEN [id |-> value.v, key |-> keys[value.v]]
    ELSE fresh

\* Option<String>.and_then(|c| Uuid::parse_str(c).ok())
AndThenParseUuid(o) == IF o.some THEN ParseUuid(o.v) ELSE None

\* get_headers_and_key, #[cfg(not(feature = "rest_mode"))]; fresh is the key
\* SessionKey would generate.
get_headers_and_key_cookie(config, keys, cookies, fresh) ==
    LET kid == AndThenParseUuid(get_cookie(cookies, KeyName, config.key))
        session_key == IF config.security_mode = "PerSession"
                       THEN get_or_create(keys, kid, fresh)
                       ELSE fresh
        key == cookie_key(config, session_key)
        value == AndThenParseUuid(get_cookie(cookies, SessionName, key))
        st == get_cookie(cookies, StoreName, key)
        storable == IF st.some THEN ParseBoolOrFalse(st.v) ELSE FALSE
    IN  [session_key |-> session_key, value |-> value, storable |-> storable,
         panic |-> FALSE]

\* Fault variant of the header lookup: the value is taken without decrypt.
get_header_unverified(headers, name, key) ==
    IF name \notin DOMAIN headers THEN NoneStr
    ELSE Some(TextOf(headers[name]))

\* headers.get(&name).and_then(|c| if let Some(key) { decrypt(&name, c, key).ok() }
\*                                 else { Some(c.to_owned()) })
get_header(headers, name, key) ==
    IF name \notin DOMAIN headers THEN NoneStr
    ELSE IF key # NoKey
         THEN LET r == decrypt(name, headers[name], key)
              IN  IF r.ok THEN Some(r.val) ELSE NoneStr
         ELSE Some(TextOf(headers[name]))

\* Whether that lookup panics instead of returning.
get_header_panics(headers, name, key) ==
    /\ name \in DOMAIN headers
    /\ key # NoKey
    /\ decrypt(name, headers[name], key).err = Panic

\* get_headers_and_key, #[cfg(feature = "rest_mode")]
get_headers_and_key_rest(config, keys, headers, fresh) ==
    LET kid == AndThenParseUuid(get_header(headers, KeyName, config.key))
        session_key == IF config.security_mode = "PerSession"
                       THEN get_or_create(keys, kid, fresh)
                       ELSE fresh
        key == cookie_key(config, session_key)
        value == AndThenParseUuid(get_header(headers, SessionName, key))
        st == get_header(headers, StoreName, key)
        storable == IF st.some THEN ParseBoolOrFalse(st.v) ELSE FALSE
    IN  [session_key |-> session_key, value |-> value, storable |-> storable,
         panic |-> \/ get_header_panics(headers, KeyName, config.key)
                   \/ get_header_panics(headers, SessionName, key)
                   \/ get_header_panics(headers, StoreName, key)]

\* get_headers_and_key(store, cookies | headers) on the inbound request.
get_headers_and_key(config, keys, req, fresh) ==
    IF config.rest_mode
    THEN get_headers_and_key_rest(config, keys, get_headers(req), fresh)
    ELSE get_headers_and_key_cookie(config, keys, get_cookies(req), fresh)

(***************************************************************************)
(* SpecCodec: one response, the client, the next request.                  *)
(***************************************************************************)
\* SessionConfig.key when one is configured.
StaticKey == 1
\* A key the server never held.
AttackerKey == NumKeys + 1

Configs ==
    [rest_mode : BOOLEAN, security_mode : {"PerSession", "Simple"}, opt_in : BOOLEAN,
     key : {NoKey, StaticKey}, prefix_with_host : BOOLEAN]

NoSessionKey == [id |-> 0, key |-> NoKey]

\* The keys SessionKey::new() / the generating branch of get_or_create can
\* return: a random id and random key material, which is none of the keys in
\* use.
FreshKeys(keys, inUse) ==
    LET used == {StaticKey} \cup { keys[k] : k \in DOMAIN keys } \cup inUse
        m == CHOOSE x \in KeyMaterials \ used : \A y \in KeyMaterials \ used : x <= y
    IN  { [id |-> i, key |-> m] : i \in Uuids \ DOMAIN keys }

NoEmitted == [id |-> 0, session_key |-> NoSessionKey, destroy |-> FALSE, storable |-> FALSE]
NoRequest == [fields |-> EmptyMap, kind |-> "none", slot |-> ""]
NoExtracted == [session_key |-> NoSessionKey, value |-> None, storable |-> FALSE,
                panic |-> FALSE]

\* The session keys earlier requests left with the key manager.
StoredKeys == [k \in {1, 2} |-> k + 1]

CodecInit ==
    /\ cfg \in Configs
    /\ cpc = "handle"
    /\ keystore = IF cfg.security_mode = "PerSession" THEN StoredKeys ELSE EmptyMap
    /\ emitted = NoEmitted
    /\ response = EmptyMap
    /\ request = NoRequest
    /\ extracted = NoExtracted
    /\ aead = AeadStart
    /\ store = NoStore
    /\ handle = NoHandles
    /\ last = NoOp
    /\ opcount = 0

\* SessionKey::new(): an ephemeral key, one of the fresh ones.
NewKey(keys, inUse) == CHOOSE k \in FreshKeys(keys, inUse) : TRUE

\* The session key of the request being answered: under PerSession one the
\* key manager holds, under Simple the ephemeral one of SessionKey::new().
RequestKeys ==
    IF cfg.security_mode = "PerSession"
    THEN { [id |-> k, key |-> keystore[k]] : k \in DOMAIN keystore }
    ELSE { NewKey(keystore, {}) }

\* The response to a request: set_headers on the session handle.
CodecEmit ==
    /\ cpc = "handle"
    /\ \E id \in Uuids, sk \in RequestKeys, destroy \in BOOLEAN, storable \in BOOLEAN,
          n \in [1 .. 3 -> Nonces] :
          /\ response' = set_headers(cfg, id, sk, destroy, storable, n)
          /\ emitted' = [id |-> id, session_key |-> sk, destroy |-> destroy,
                         storable |-> storable]
    /\ cpc' = "response"
    /\ UNCHANGED <<cfg, keystore, request, extracted, aeadVars, storeVars>>

\* What a client keeps of a response: the fields that are no tombstones,
\* under the names they came with.
Kept(resp) == [n \in { x \in DOMAIN resp : ~resp[x].removal } |-> resp[n].value]

\* The client presents the fields unmodified on the next request.
ClientReturn ==
    /\ cpc = "response"
    /\ request' = [fields |-> Kept(response), kind |-> "honest", slot |-> ""]
    /\ cpc' = "request"
    /\ UNCHANGED <<cfg, keystore, emitted, response, extracted, aeadVars, storeVars>>

\* A value as the transport carries it.
OnWire(v) == IF cfg.rest_mode THEN v ELSE PctEncode(v)
OffWire(v) == IF cfg.rest_mode THEN v ELSE PctDecode(v)

\* The response of another session of the same server: another id, another
\* session key.
OtherSession ==
    LET id == CHOOSE u \in Uuids : u # emitted.id
        sk == IF cfg.security_mode = "PerSession"
              THEN CHOOSE k \in RequestKeys : k.id # emitted.session_key.id
              ELSE NewKey(keystore, {emitted.session_key.key})
    IN  Kept(set_headers(cfg, id, sk, FALSE, TRUE, [i \in 1 .. 3 |-> 0]))

\* What a client can present in the slot named slot instead of what it was
\* sent, by kind.
Forgeries(slot) ==
    LET mine == Kept(response)
        theirs == OtherSession
        seal(s) == IF cfg.rest_mode THEN encrypt(slot, s, AttackerKey, 0)
                   ELSE PrivateSeal(slot, s, AttackerKey, 0)
    IN  [unsealed |-> { Plain(UuidText(u)) : u \in Uuids } \cup { Plain("true") },
         otherkey |-> { OnWire(seal(UuidText(u))) : u \in Uuids } \cup { OnWire(seal("true")) },
         damaged  |-> UNION { { OnWire(d) : d \in Damaged(OffWire(mine[n])) } :
                              n \in { x \in DOMAIN mine :
                                        /\ x \in {slot, HostPrefix \o slot}
                                        /\ OffWire(mine[x]).b64 } },
         cross    |-> { mine[n] : n \in { x \in DOMAIN mine :
                                            x \notin {slot, HostPrefix \o slot} } },
         othersession |-> { theirs[n] : n \in DOMAIN theirs }]

ForgeKinds == {"unsealed", "otherkey", "damaged", "cross", "othersession"}

\* The client presents one slot with a value of its own making.
ClientForge ==
    /\ cpc = "response"
    /\ \E slot \in BaseNames, kind \in ForgeKinds :
          \E v \in Forgeries(slot)[kind] :
             request' = [fields |-> Put(Kept(response), slot, v), kind |-> kind,
                         slot |-> slot]
    /\ cpc' = "request"
    /\ UNCHANGED <<cfg, keystore, emitted, response, extracted, aeadVars, storeVars>>

\* The next request: get_headers_and_key, and the key manager keeping the
\* session key it resolved.
CodecExtract ==
    /\ cpc = "request"
    /\ \E fresh \in IF cfg.security_mode = "PerSession"
                    THEN FreshKeys(keystore, {emitted.session_key.key})
                    ELSE { NewKey(keystore, {emitted.session_key.key}) } :
          /\ extracted' = get_headers_and_key(cfg, keystore, request.fields, fresh)
          /\ keystore' = IF cfg.security_mode = "PerSession"
                         THEN Put(keystore, extracted'.session_key.id,
                                  extracted'.session_key.key)
                         ELSE keystore
    /\ cpc' = "extracted"
    /\ UNCHANGED <<cfg, emitted, response, request, aeadVars, storeVars>>

CodecNext == CodecEmit \/ ClientReturn \/ ClientForge \/ CodecExtract

AeadNext == AeadEncryptStep \/ AeadDamageStep \/ AeadForgeStep \/ AeadDecryptStep

\* Values of the variables a specification does not use.
IdleConfig ==
    [rest_mode |-> TRUE, security_mode |-> "Simple", opt_in |-> FALSE,
     key |-> NoKey, prefix_with_host |-> FALSE]

AeadInit ==
    /\ aead = AeadStart
    /\ cfg = IdleConfig
    /\ cpc = "idle"
    /\ keystore = EmptyMap
    /\ emitted = NoEmitted
    /\ response = EmptyMap
    /\ request = NoRequest
    /\ extracted = NoExtracted
    /\ store = NoStore
    /\ handle = NoHandles
    /\ last = NoOp
    /\ opcount = 0

SpecAead == AeadInit /\ [][AeadNext]_vars

SpecCodec == CodecInit /\ [][CodecNext]_vars

(***************************************************************************)
(* Claims about the transport codec.                                       *)
(***************************************************************************)
\* What set_headers did with a field: CREATE when the response carries a value
\* under the field's name, REMOVE when it carries a tombstone (cookies) or
\* nothing (headers).
FieldAction(type) ==
    LET name == get_name(type, cfg)
    IN  CASE name \in DOMAIN response /\ ~response[name].removal -> "CREATE"
          [] name \in DOMAIN response /\ response[name].removal /\ ~cfg.rest_mode -> "REMOVE"
          [] name \notin DOMAIN response /\ cfg.rest_mode -> "REMOVE"
          [] OTHER -> "NEITHER"

\* The emission decision table, column Data/Key and column Store.
TableIdAction(destroy, opt_in, storable) ==
    CASE destroy -> "REMOVE"
      [] ~destroy /\ ~opt_in -> "CREATE"
      [] ~destroy /\ opt_in /\ storable -> "CREATE"
      [] ~destroy /\ opt_in /\ ~storable -> "REMOVE"

TableStoreAction(destroy, opt_in, storable) ==
    CASE destroy -> "REMOVE"
      [] ~destroy /\ ~opt_in -> "REMOVE"
      [] ~destroy /\ opt_in /\ storable -> "CREATE"
      [] ~destroy /\ opt_in /\ ~storable -> "REMOVE"

\* C1 as stated: in every security mode and both variants set_headers takes
\* the table's action on Data, on Key and on Store.
C1_TableEveryMode ==
    cpc = "response" =>
        /\ FieldAction("Data") = TableIdAction(emitted.destroy, cfg.opt_in, emitted.storable)
        /\ FieldAction("Key") = TableIdAction(emitted.destroy, cfg.opt_in, emitted.storable)
        /\ FieldAction("Store") = TableStoreAction(emitted.destroy, cfg.opt_in, emitted.storable)

\* C1 amended: set_headers takes the table's action on Data and on Store in
\* every security mode and both variants, and on Key under PerSession; under
\* Simple the Key field is REMOVE for every (destroy, opt_in, storable).
C1_TableKeyPerSession ==
    cpc = "response" =>
        /\ FieldAction("Data") = TableIdAction(emitted.destroy, cfg.opt_in, emitted.storable)
        /\ FieldAction("Key") =
              IF cfg.security_mode = "PerSession"
              THEN TableIdAction(emitted.destroy, cfg.opt_in, emitted.storable)
              ELSE "REMOVE"
        /\ FieldAction("Store") = TableStoreAction(emitted.destroy, cfg.opt_in, emitted.storable)

\* A response under Simple mode in the row destroy=false, opt_in=false, where
\* the table says CREATE for Key.
C1_Witness ==
    /\ cpc = "response"
    /\ cfg.security_mode = "Simple"
    /\ ~emitted.destroy /\ ~cfg.opt_in /\ emitted.storable
    /\ FieldAction("Data") = "CREATE"
    /\ FieldAction("Key") = "REMOVE"

\* C2: after set_headers and an unmodified return of the created fields,
\* get_headers_and_key resolves the id of a created Data field, the storable
\* flag of a created Store field and, under PerSession, the key id of a
\* created Key field.
C2_RoundTrip ==
    (cpc = "extracted" /\ request.kind = "honest") =>
        /\ FieldAction("Data") = "CREATE" => extracted.value = Some(emitted.id)
        /\ FieldAction("Store") = "CREATE" => extracted.storable = emitted.storable
        /\ (cfg.security_mode = "PerSession" /\ FieldAction("Key") = "CREATE")
              => extracted.session_key = emitted.session_key

\* The same round trip where the names carry no host-lock prefix.
RoundTripUnprefixed ==
    (cpc = "extracted" /\ request.kind = "honest" /\ ~cfg.prefix_with_host) =>
        /\ FieldAction("Data") = "CREATE" => extracted.value = Some(emitted.id)
        /\ FieldAction("Store") = "CREATE" => extracted.storable = emitted.storable
        /\ (cfg.security_mode = "PerSession" /\ FieldAction("Key") = "CREATE")
              => extracted.session_key = emitted.session_key

\* The key the Data and Store fields of the request are unsealed with.
ActiveKey == cookie_key(cfg, extracted.session_key)

\* A value that verifies under key as the field name: a byte vector whose tag
\* was computed with that key over that name, its nonce and its body.
Verifies(v, name, key) ==
    /\ v.b64
    /\ v.data.tag = Gmac(key, v.data.nonce, name, v.data.ct, v.data.ctlen)

\* The inbound value of a field as the server reads it.
Inbound(name) == OffWire(request.fields[name])

\* The request presents, in the slot named name, a value that was tampered
\* with, sealed under a key the server never held, or never sealed.
Unverifiable(name) ==
    /\ cpc = "extracted"
    /\ request.slot = name
    /\ request.kind \in {"unsealed", "otherkey", "damaged"}

\* The inbound key id was treated as absent: the key manager generated a key.
KeyIdAbsent == extracted.session_key.id \notin DOMAIN StoredKeys

\* C3 as stated: in every configuration an unverifiable Data value resolves no
\* session id, an unverifiable Store value gives storable=false, an
\* unverifiable Key value resolves no stored key, a session id and
\* storable=true come only from values that verified, and extraction does
\* not crash.
C3_UnverifiedAbsentEveryConfig ==
    /\ Unverifiable(SessionName) => extracted.value = None
    /\ Unverifiable(StoreName) => ~extracted.storable
    /\ (Unverifiable(KeyName) /\ cfg.security_mode = "PerSession") => KeyIdAbsent
    /\ (cpc = "extracted" /\ extracted.value.some) =>
          /\ SessionName \in DOMAIN request.fields
          /\ Verifies(Inbound(SessionName), SessionName, ActiveKey)
    /\ (cpc = "extracted" /\ extracted.storable) =>
          /\ StoreName \in DOMAIN request.fields
          /\ Verifies(Inbound(StoreName), StoreName, ActiveKey)
    /\ ~extracted.panic

\* C3 amended: the same for the Data and Store fields in every configuration
\* in which a key applies to them (PerSession, or Simple with a static key),
\* and for the Key field when a static key is configured; with no key the
\* value is taken as it comes.  Extraction crashes in no configuration.
C3_UnverifiedAbsentWhenKeyed ==
    /\ ActiveKey # NoKey =>
          /\ Unverifiable(SessionName) => extracted.value = None
          /\ Unverifiable(StoreName) => ~extracted.storable
          /\ (cpc = "extracted" /\ extracted.value.some) =>
                /\ SessionName \in DOMAIN request.fields
                /\ Verifies(Inbound(SessionName), SessionName, ActiveKey)
          /\ (cpc = "extracted" /\ extracted.storable) =>
                /\ StoreName \in DOMAIN request.fields
                /\ Verifies(Inbound(StoreName), StoreName, ActiveKey)
    /\ (cfg.key # NoKey /\ Unverifiable(KeyName) /\ cfg.security_mode = "PerSession")
          => KeyIdAbsent
    /\ ~extracted.panic

\* A damaged envelope in the Data slot of the header variant, where a key
\* applies and the honest value would have resolved.
C3_Witness ==
    /\ Unverifiable(SessionName)
    /\ request.kind = "damaged"
    /\ cfg.rest_mode
    /\ ~cfg.prefix_with_host
    /\ ActiveKey # NoKey
    /\ extracted.value = None

\* C4: under PerSession set_headers seals a created Data or Store field with
\* the session's own key, never the static one, and get_headers_and_key
\* resolves a session id or a storable flag only from a value sealed under the
\* session key resolved for that request.
C4_PerSessionKey ==
    cfg.security_mode = "PerSession" =>
        /\ \A type \in {"Data", "Store"} :
              (cpc # "handle" /\ FieldAction(type) = "CREATE") =>
                  LET v == OffWire(response[get_name(type, cfg)].value)
                  IN  /\ v.b64
                      /\ v.data.tag.key = emitted.session_key.key
                      /\ v.data.tag.key # StaticKey
        /\ (cpc = "extracted" /\ extracted.value.some) =>
              Inbound(SessionName).data.tag.key = extracted.session_key.key
        /\ (cpc = "extracted" /\ extracted.storable) =>
              Inbound(StoreName).data.tag.key = extracted.session_key.key
        /\ (cpc = "extracted" /\ SessionName \in DOMAIN request.fields
              /\ Inbound(SessionName).data.tag.key # extracted.session_key.key)
              => extracted.value = None

\* Session B's own Key field with session A's Data field: the resolved key is
\* B's, the Data value is sealed under A's, and no id is resolved.
C4_Witness ==
    /\ cpc = "extracted"
    /\ cfg.security_mode = "PerSession"
    /\ ~cfg.prefix_with_host
    /\ request.kind = "othersession"
    /\ request.slot = SessionName
    /\ extracted.session_key = emitted.session_key
    /\ Inbound(SessionName).b64
    /\ Inbound(SessionName).data.tag.key \in { StoredKeys[k] : k \in DOMAIN StoredKeys }
    /\ Inbound(SessionName).data.tag.aad = SessionName
    /\ extracted.value = None

\* C5: an envelope set_headers sealed under a field's name decrypts under no
\* other field name with the same key, and a created, sealed Store or Key
\* value presented in the Data slot resolves no session id.
C5_AadBinding ==
    /\ (cfg.rest_mode /\ cpc # "handle") =>
          \A a \in DOMAIN response :
             response[a].value.b64 =>
                \A b \in FieldNames \ {a} :
                   ~decrypt(b, response[a].value, response[a].value.data.tag.key).ok
    /\ (cpc = "extracted" /\ request.kind = "cross" /\ request.slot = SessionName
          /\ Inbound(SessionName).b64)
          => extracted.value = None

\* The header variant under Simple with a static key: the Store envelope,
\* sealed with the very key the Data slot is opened with, sits in the Data
\* slot.
C5_Witness ==
    /\ cpc = "extracted"
    /\ cfg.rest_mode
    /\ cfg.security_mode = "Simple" /\ cfg.key = StaticKey
    /\ ~cfg.prefix_with_host
    /\ request.kind = "cross" /\ request.slot = SessionName
    /\ Inbound(SessionName).b64
    /\ Inbound(SessionName).data.tag.aad = StoreName
    /\ Inbound(SessionName).data.tag.key = ActiveKey
    /\ extracted.value = None

(***************************************************************************)
(* Claims about encrypt and decrypt.                                       *)
(***************************************************************************)
\* C6: decrypt(field, encrypt(field, plaintext, key), key) returns exactly
\* plaintext, for every plaintext, field name, key and nonce.
C6_DecryptEncrypt ==
    (aead.pc = "done" /\ aead.honest /\ aead.dname = aead.name /\ aead.dkey = aead.key)
        => aead.result = Ok(aead.value)

\* The text of a Uuid sealed and opened under a host-locked name.
C6_Witness ==
    /\ aead.pc = "done" /\ aead.honest
    /\ aead.dname = aead.name /\ aead.dkey = aead.key
    /\ aead.name = HostPrefix \o SessionName
    /\ aead.value \in UuidTexts
    /\ aead.nonce = 1
    /\ aead.result.ok

\* C7: decrypt of a value that decodes to no more than NONCE_LEN bytes returns
\* the length error, which is not the error of a bad seal, and neither
\* panics nor reaches the cipher.
C7_ShortEnvelope ==
    (aead.pc = "done" /\ Base64Decode(aead.env).ok
        /\ Base64Decode(aead.env).data.len <= NONCE_LEN)
        => /\ aead.result = Err(LengthError)
           /\ aead.result # Err(SealError)
           /\ aead.result.err # Panic

\* An envelope cut to 10 bytes was decrypted.
C7_Witness ==
    /\ aead.pc = "done"
    /\ aead.env = Base64Encode(ShortVec(10))
    /\ ~aead.result.ok

(***************************************************************************)
(* The session store and the session handle (src/src/session.rs).          *)
(***************************************************************************)
\* Two requests are in flight at once.
Reqs == {1, 2}
DataKeys == {"a", "b"}

\* The values an application stores, by Rust type; "map" is a value
\* serde_json cannot serialize (a map whose keys are no strings).
Values ==
    { [t |-> "i64", v |-> "1"], [t |-> "u8", v |-> "1"], [t |-> "map", v |-> ""] }
Types == {"i64", "String"}

Quote(s) == "\"" \o s \o "\""

\* serde_json::to_string(&value).unwrap_or_else(|_| "".to_string())
Serialize(value) ==
    CASE value.t \in {"i64", "u8"} -> value.v
      [] value.t = "String"        -> Quote(value.v)
      [] OTHER                     -> ""

NoRet == [some |-> FALSE, v |-> [t |-> "", v |-> ""]]
Ret(value) == [some |-> TRUE, v |-> value]
\* Some(1), what the closures of the setters return.
RetOne == Ret([t |-> "i32", v |-> "1"])

\* serde_json::from_str::<T>(string).ok()
Deserialize(T, string) ==
    CASE T \in {"i64", "u8"} /\ string = "1" -> Ret([t |-> T, v |-> "1"])
      [] T = "String" /\ string = Quote("1") -> Ret([t |-> "String", v |-> "1"])
      [] OTHER -> NoRet

\* A record as the store inserts it for a new session.
NewSessionData ==
    [data |-> EmptyMap, destroy |-> FALSE, update |-> FALSE, storable |-> FALSE,
     longterm |-> FALSE]

\* HashMap::remove
Without(m, k) == [x \in (DOMAIN m) \ {k} |-> m[x]]

\* Fault variant of the constructor: the first Uuid::new_v4() is returned
\* whether or not it is a key of store.inner.
AxumSession_new_unchecked(st, cookies) ==
    LET value == AndThenParseUuid(get_cookie(cookies, SessionName, st.key))
    IN  IF value.some THEN { value.v } ELSE Uuids

\* AxumSession::new: the ids the constructor can return for a cookie jar.  A
\* cookie that resolves to a Uuid is taken; otherwise the loop ends on the
\* first Uuid::new_v4() that is no key of store.inner.
AxumSession_new(st, cookies) ==
    LET value == AndThenParseUuid(get_cookie(cookies, SessionName, st.key))
    IN  IF value.some
        THEN { value.v }
        ELSE { token \in Uuids : UuidText(token) \notin DOMAIN st.inner }

\* self.store.inner.get_mut(&self.id.0.to_string()): the record under the
\* handle's id, if there is one.
get_mut(inner, id) ==
    IF UuidText(id) \in DOMAIN inner
    THEN [some |-> TRUE, v |-> inner[UuidText(id)]]
    ELSE [some |-> FALSE, v |-> NewSessionData]

\* Fault variant of tap: func runs on a new record when none is found, and the
\* record is put into the map.
tap_recreating(inner, id, out) ==
    [inner |-> Put(inner, UuidText(id), out.sess), ret |-> out.ret]

\* AxumSession::tap(func): out is what func makes of the record get_mut found,
\* the record afterwards (sess) and func's result (ret).  Yields the map
\* afterwards and what tap returns.
tap(inner, id, out) ==
    IF get_mut(inner, id).some
    THEN [inner |-> Put(inner, UuidText(id), out.sess), ret |-> out.ret]
    ELSE [inner |-> inner, ret |-> NoRet]

\* Fault variant of destroy: the record is taken out of the map at once.
destroy_removing(inner, id) ==
    [inner |-> Without(inner, UuidText(id)), ret |-> RetOne]

\* AxumSession::destroy
destroy(inner, id) ==
    LET sess == get_mut(inner, id).v
    IN  tap(inner, id, [sess |-> [sess EXCEPT !.destroy = TRUE], ret |-> RetOne])

\* AxumSession::set_longterm
set_longterm(inner, id, longterm) ==
    LET sess == get_mut(inner, id).v
    IN  tap(inner, id, [sess |-> [sess EXCEPT !.longterm = longterm, !.update = TRUE],
                        ret |-> RetOne])

\* Fault variant of set_store: storing a session again takes back its destroy.
set_store_reviving(inner, id, storable) ==
    LET sess == get_mut(inner, id).v
    IN  tap(inner, id, [sess |-> [sess EXCEPT !.storable = storable, !.update = TRUE,
                                              !.destroy = FALSE],
                        ret |-> RetOne])

\* AxumSession::set_store
set_store(inner, id, storable) ==
    LET sess == get_mut(inner, id).v
    IN  tap(inner, id, [sess |-> [sess EXCEPT !.storable = storable, !.update = TRUE],
                        ret |-> RetOne])

\* AxumSession::get::<T>
get(inner, id, T, key) ==
    LET sess == get_mut(inner, id).v
    IN  tap(inner, id,
            [sess |-> sess,
             ret |-> IF key \in DOMAIN sess.data
                     THEN Deserialize(T, sess.data[key]) ELSE NoRet])

\* Fault variant of get_remove: the entry is read and left in the map.
get_remove_keeping(inner, id, T, key) ==
    LET sess == get_mut(inner, id).v
    IN  tap(inner, id,
            [sess |-> sess,
             ret |-> IF key \in DOMAIN sess.data
                     THEN Deserialize(T, sess.data[key]) ELSE NoRet])

\* AxumSession::get_remove::<T>
get_remove(inner, id, T, key) ==
    LET sess == get_mut(inner, id).v
    IN  tap(inner, id,
            [sess |-> [sess EXCEPT !.data = Without(@, key)],
             ret |-> IF key \in DOMAIN sess.data
                     THEN Deserialize(T, sess.data[key]) ELSE NoRet])

\* Fault variant of set: the entry is written and the record marked whatever
\* is stored.
set_always(inner, id, key, value) ==
    LET sess == get_mut(inner, id).v
    IN  tap(inner, id,
            [sess |-> [sess EXCEPT !.data = Put(@, key, Serialize(value)),
                                   !.update = TRUE],
             ret |-> RetOne])

\* AxumSession::set
set(inner, id, key, value) ==
    LET sess == get_mut(inner, id).v
    IN  tap(inner, id,
            [sess |-> IF key \notin DOMAIN sess.data \/ sess.data[key] # Serialize(value)
                      THEN [sess EXCEPT !.data = Put(@, key, Serialize(value)),
                                        !.update = TRUE]
                      ELSE sess,
             ret |-> RetOne])

\* Fault variant of remove: the record is marked only if the key was there.
remove_if_present(inner, id, key) ==
    LET sess == get_mut(inner, id).v
    IN  tap(inner, id,
            [sess |-> IF key \in DOMAIN sess.data
                      THEN [sess EXCEPT !.update = TRUE, !.data = Without(@, key)]
                      ELSE sess,
             ret |-> IF key \in DOMAIN sess.data
                     THEN Ret([t |-> "String", v |-> sess.data[key]]) ELSE NoRet])

\* AxumSession::remove: the closure returns the removed string as a T, here
\* the String itself.
remove(inner, id, key) ==
    LET sess == get_mut(inner, id).v
    IN  tap(inner, id,
            [sess |-> [sess EXCEPT !.update = TRUE, !.data = Without(@, key)],
             ret |-> IF key \in DOMAIN sess.data
                     THEN Ret([t |-> "String", v |-> sess.data[key]]) ELSE NoRet])

\* Fault variant of clear_all: the data map is left for the backend to clear.
clear_all_backend_only(inner, id) == inner

\* AxumSession::clear_all, the in-memory part.
clear_all(inner, id) ==
    IF get_mut(inner, id).some
    THEN [inner EXCEPT ![UuidText(id)].data = EmptyMap]
    ELSE inner

\* Fault variant of count: the in-memory map is counted whatever the store.
count_in_memory(st, db) == Cardinality(DOMAIN st.inner)

\* AxumSession::count; db is the backend's answer, an Option<i64>.
count(st, db) ==
    IF st.persistent
    THEN (IF db.some THEN db.v ELSE 0)
    ELSE Cardinality(DOMAIN st.inner)

(***************************************************************************)
(* Spec: requests against one store.  Each request builds its handle       *)
(* (AxumSession::new), has its record inserted, performs handle operations *)
(* and is answered.                                                        *)
(***************************************************************************)
IdleHandle == [pc |-> "start", id |-> 0]

\* The stores of the constructor's runs: any set of resident ids, with or
\* without a configured key and a durable backend.
PopulatedStores ==
    { [inner |-> [k \in { UuidText(u) : u \in S } |-> NewSessionData],
       key |-> key,
       persistent |-> persistent,
       db |-> IF persistent THEN { UuidText(u) : u \in S } ELSE {}] :
      S \in SUBSET Uuids, key \in {NoKey, StaticKey}, persistent \in BOOLEAN }

\* A record an earlier request left: one entry, saved, clean.
UsedSessionData == [NewSessionData EXCEPT !.data = [k \in {"a"} |-> "1"]]

\* The stores of the handle's runs: empty, or with the used record of
\* session 1; with or without a durable backend.
InitialStores ==
    { [inner |-> inner,
       key |-> StaticKey,
       persistent |-> persistent,
       db |-> IF persistent THEN DOMAIN inner ELSE {}] :
      inner \in { EmptyMap,
                  [k \in {UuidText(1)} |-> UsedSessionData] },
      persistent \in BOOLEAN }

Init ==
    /\ store \in InitialStores
    /\ handle = [r \in Reqs |-> IdleHandle]
    /\ last = NoOp
    /\ opcount = 0
    /\ aead = AeadStart
    /\ cfg = IdleConfig
    /\ cpc = "idle"
    /\ keystore = EmptyMap
    /\ emitted = NoEmitted
    /\ response = EmptyMap
    /\ request = NoRequest
    /\ extracted = NoExtracted

NewInit ==
    /\ store \in PopulatedStores
    /\ handle = [r \in Reqs |-> IdleHandle]
    /\ last = NoOp
    /\ opcount = 0
    /\ aead = AeadStart
    /\ cfg = IdleConfig
    /\ cpc = "idle"
    /\ keystore = EmptyMap
    /\ emitted = NoEmitted
    /\ response = EmptyMap
    /\ request = NoRequest
    /\ extracted = NoExtracted

\* The cookie jars a request can arrive with: none, or a session cookie that
\* the server sealed, that was never sealed, that is no id, or whose seal is
\* broken.
SealedJars ==
    { [n \in {SessionName} |-> PrivateSeal(SessionName, UuidText(u), StaticKey, 0)] :
      u \in Uuids }

InboundJars ==
    {EmptyMap}
    \cup SealedJars
    \cup { [n \in {SessionName} |-> Plain(UuidText(u))] : u \in Uuids }
    \cup { [n \in {SessionName} |-> Plain("junk")] }
    \cup { [n \in {SessionName} |-> Base64Encode([j[SessionName].data EXCEPT !.tag = NoTag])] :
           j \in SealedJars }

\* AxumSession::new(store, cookies) for a request arriving with one of jars;
\* the requests are numbered in the order they arrive.
NewFrom(r, jars) ==
    /\ handle[r].pc = "start"
    /\ \A q \in Reqs : q < r => handle[q].pc # "start"
    /\ \E cookies \in jars :
          \E id \in AxumSession_new(store, cookies) :
             /\ handle' = [handle EXCEPT ![r] = [pc |-> "made", id |-> id]]
             /\ last' = [NoOp EXCEPT !.req = r, !.op = "new",
                                     !.inbound = AndThenParseUuid(
                                         get_cookie(cookies, SessionName, store.key))]
    /\ UNCHANGED <<store, opcount, aeadVars, codecVars>>

\* A request with no cookie or with the cookie the server sent.
New(r) == NewFrom(r, {EmptyMap} \cup SealedJars)

\* A request with any cookie.
NewAny(r) == NewFrom(r, InboundJars)

\* The session layer inserts a fresh record when none is resident under the
\* handle's id.
Insert(r) ==
    /\ handle[r].pc = "made"
    /\ store' = IF get_mut(store.inner, handle[r].id).some
                THEN store
                ELSE [store EXCEPT !.inner = Put(@, UuidText(handle[r].id), NewSessionData)]
    /\ handle' = [handle EXCEPT ![r].pc = "bound"]
    /\ last' = [NoOp EXCEPT !.op = "insert"]
    /\ UNCHANGED <<opcount, aeadVars, codecVars>>

CanOperate(r) == handle[r].pc = "bound" /\ opcount < MaxOps

\* A handle operation that goes through tap, with its outcome.
Tapped(op, out) ==
    /\ store' = [store EXCEPT !.inner = out.inner]
    /\ opcount' = opcount + 1
    /\ last' = [NoOp EXCEPT !.op = op, !.ret = out.ret]
    /\ UNCHANGED <<handle, aeadVars, codecVars>>

Destroy(r) ==
    /\ CanOperate(r)
    /\ Tapped("destroy", destroy(store.inner, handle[r].id))

SetLongterm(r) ==
    /\ CanOperate(r)
    /\ \E b \in BOOLEAN :
          Tapped("set_longterm", set_longterm(store.inner, handle[r].id, b))

SetStore(r) ==
    /\ CanOperate(r)
    /\ \E b \in BOOLEAN :
          Tapped("set_store", set_store(store.inner, handle[r].id, b))

Get(r) ==
    /\ CanOperate(r)
    /\ \E T \in Types, key \in DataKeys :
          Tapped("get", get(store.inner, handle[r].id, T, key))

GetRemove(r) ==
    /\ CanOperate(r)
    /\ \E T \in Types, key \in DataKeys :
          Tapped("get_remove", get_remove(store.inner, handle[r].id, T, key))

Set(r) ==
    /\ CanOperate(r)
    /\ \E key \in DataKeys, value \in Values :
          Tapped("set", set(store.inner, handle[r].id, key, value))

Remove(r) ==
    /\ CanOperate(r)
    /\ \E key \in DataKeys :
          Tapped("remove", remove(store.inner, handle[r].id, key))

\* AxumSession::clear_all: the backend's clear_store() succeeds or fails, and
\* unwrap() panics on the failure.
ClearAll(r) ==
    /\ CanOperate(r)
    /\ \E ok \in (IF store.persistent THEN BOOLEAN ELSE {TRUE}) :
          /\ store' = [store EXCEPT !.inner = clear_all(store.inner, handle[r].id),
                                    !.db = IF store.persistent /\ ok THEN {} ELSE @]
          /\ handle' = [handle EXCEPT ![r].pc = IF ok THEN @ ELSE "panicked"]
    /\ opcount' = opcount + 1
    /\ last' = [NoOp EXCEPT !.op = "clear_all"]
    /\ UNCHANGED <<aeadVars, codecVars>>

\* AxumSession::count: the backend's count() answers or fails.
Count(r) ==
    /\ CanOperate(r)
    /\ \E db \in {Some(Cardinality(store.db)), None} :
          last' = [NoOp EXCEPT !.op = "count", !.n = count(store, db)]
    /\ opcount' = opcount + 1
    /\ UNCHANGED <<store, handle, aeadVars, codecVars>>

\* The configuration the store of Spec runs under: cookies, sealed with the
\* store's key.
StoreConfig ==
    [rest_mode |-> FALSE, security_mode |-> "Simple", opt_in |-> FALSE,
     key |-> StaticKey, prefix_with_host |-> FALSE]

\* The names of the fields a response creates: set_headers with the record's
\* destroy and storable flags.
Emission(id, sess) ==
    LET resp == set_headers(StoreConfig, id, NewKey(EmptyMap, {}), sess.destroy,
                            sess.storable, [i \in 1 .. 3 |-> 0])
    IN  { x \in DOMAIN resp : ~resp[x].removal }

\* The response: the fields are emitted from the record's flags; a record
\* marked destroy leaves the store and the backend; any other is saved when
\* dirty, and is clean afterwards.
Respond(r) ==
    /\ handle[r].pc = "bound"
    /\ LET k == UuidText(handle[r].id)
       IN  /\ store' =
                 IF k \notin DOMAIN store.inner THEN store
                 ELSE IF store.inner[k].destroy
                      THEN [store EXCEPT !.inner = Without(@, k), !.db = @ \ {k}]
                      ELSE [store EXCEPT !.inner[k].update = FALSE,
                                         !.db = IF store.persistent /\ store.inner[k].update
                                                THEN @ \cup {k} ELSE @]
           /\ last' = [NoOp EXCEPT !.op = "respond",
                                   !.created = IF k \in DOMAIN store.inner
                                               THEN Emission(handle[r].id, store.inner[k])
                                               ELSE {}]
    /\ handle' = [handle EXCEPT ![r].pc = "done"]
    /\ UNCHANGED <<opcount, aeadVars, codecVars>>

\* The record of a request in flight is evicted.
Evict ==
    /\ \E r \in Reqs :
          /\ handle[r].pc = "bound"
          /\ get_mut(store.inner, handle[r].id).some
          /\ store' = [store EXCEPT !.inner = Without(@, UuidText(handle[r].id))]
    /\ last' = [NoOp EXCEPT !.op = "evict"]
    /\ UNCHANGED <<handle, opcount, aeadVars, codecVars>>

Next ==
    \/ \E r \in Reqs :
          \/ New(r) \/ Insert(r) \/ Destroy(r) \/ SetLongterm(r) \/ SetStore(r)
          \/ Get(r) \/ GetRemove(r) \/ Set(r) \/ Remove(r) \/ ClearAll(r)
          \/ Count(r) \/ Respond(r)
    \/ Evict

Spec == Init /\ [][Next]_vars

\* The constructor alone, against every populated store.
NewNext == \E r \in Reqs : NewAny(r) \/ Insert(r)

SpecNew == NewInit /\ [][NewNext]_vars

(***************************************************************************)
(* The constructor (SpecNew).                                              *)
(***************************************************************************)
\* The handle the constructor has just returned, and whether its id is the
\* inbound one or a generated one.
JustBuilt == last.op = "new"
BuiltId == handle[last.req].id
Resident(id) == UuidText(id) \in DOMAIN store.inner

\* C8: the constructor reuses an inbound id only if it verified and a record
\* with that id is resident in the store's map; a verified inbound id without
\* a resident record is not adopted.
C8_ReuseOnlyIfResident ==
    (JustBuilt /\ last.inbound.some /\ BuiltId = last.inbound.v) => Resident(BuiltId)

\* What the constructor does: a verified inbound id is adopted whether or not
\* a record is resident under it.
AdoptsEveryVerifiedId ==
    (JustBuilt /\ last.inbound.some) => BuiltId = last.inbound.v

AdoptsNonResident ==
    JustBuilt /\ last.inbound.some /\ BuiltId = last.inbound.v /\ ~Resident(BuiltId)

\* C9: against a store populated with any set of ids, an id the generator
\* produced (no inbound id resolved) is no key of the store's map when the
\* constructor returns it.
C9_GeneratedNotResident ==
    (JustBuilt /\ ~last.inbound.some) => ~Resident(BuiltId)

C9_Witness ==
    /\ JustBuilt
    /\ ~last.inbound.some
    /\ Cardinality(DOMAIN store.inner) = NumUuids - 1
    /\ ~Resident(BuiltId)

(***************************************************************************)
(* The handle operations (Spec).                                           *)
(***************************************************************************)
\* The step is request r's set(key, value) on a resident record.
SetStep(r, key, value) ==
    /\ last'.op = "set"
    /\ CanOperate(r)
    /\ Resident(handle[r].id)
    /\ store' = [store EXCEPT !.inner = set(store.inner, handle[r].id, key, value).inner]

\* C10: set(key, value) writes the entry and sets the update flag only when
\* the serialized value differs from the string stored at key; with an equal
\* serialization the data map and the update flag stay as they are.
C10_SetWritesOnChange ==
    [][last'.op = "set" => \A r \in Reqs, key \in DataKeys, value \in Values :
          SetStep(r, key, value) =>
             LET k   == UuidText(handle[r].id)
                 old == store.inner[k]
                 new == store'.inner[k]
             IN  IF key \in DOMAIN old.data /\ old.data[key] = Serialize(value)
                 THEN new.data = old.data /\ new.update = old.update
                 ELSE /\ new.data = Put(old.data, key, Serialize(value))
                      /\ new.update = TRUE]_vars

\* The flag cleared between two sets of the same serialization: session 2
\* was set and answered, and the set of the next request with its cookie
\* left the record clean.
C10_Witness ==
    /\ last.op = "set"
    /\ handle[1].pc = "done"
    /\ handle[2] = [pc |-> "bound", id |-> 2]
    /\ Resident(2)
    /\ ~store.inner[UuidText(2)].update
    /\ DOMAIN store.inner[UuidText(2)].data # {}

\* The step is request r's get_remove::<T>(key) on a resident record.
GetRemoveStep(r, T, key) ==
    /\ last'.op = "get_remove"
    /\ CanOperate(r)
    /\ Resident(handle[r].id)
    /\ store' = [store EXCEPT
                    !.inner = get_remove(store.inner, handle[r].id, T, key).inner]
    /\ last'.ret = get_remove(store.inner, handle[r].id, T, key).ret

\* C11: get_remove(key) on a resident record returns what the string stored
\* at key deserializes to and leaves key absent from the data map, the other
\* entries and the flags as they were; with key missing it returns nothing
\* and the record, data and flags, is unchanged.
C11_GetRemove ==
    [][last'.op = "get_remove" => \A r \in Reqs, T \in Types, key \in DataKeys :
          GetRemoveStep(r, T, key) =>
             LET k   == UuidText(handle[r].id)
                 old == store.inner[k]
                 new == store'.inner[k]
             IN  IF key \in DOMAIN old.data
                 THEN /\ last'.ret = Deserialize(T, old.data[key])
                      /\ key \notin DOMAIN new.data
                      /\ DOMAIN new.data = (DOMAIN old.data) \ {key}
                      /\ \A x \in DOMAIN new.data : new.data[x] = old.data[x]
                      /\ [new EXCEPT !.data = old.data] = old
                 ELSE /\ last'.ret = NoRet
                      /\ new = old]_vars

\* get_remove::<i64> has returned the value of the one entry there was, and
\* no record holds an entry any more.
C11_Witness ==
    /\ last.op = "get_remove"
    /\ last.ret = Ret([t |-> "i64", v |-> "1"])
    /\ DOMAIN store.inner # {}
    /\ \A k \in DOMAIN store.inner : DOMAIN store.inner[k].data = {}

\* The operations that go through tap.
TapOps == {"get", "get_remove", "set", "remove", "destroy", "set_longterm", "set_store"}

\* No request that can operate has its record in the store.
NoRecordToOperateOn ==
    \A r \in Reqs : CanOperate(r) => ~Resident(handle[r].id)

\* Every request that can operate has its record in the store.
EveryRecordToOperateOn ==
    \A r \in Reqs : CanOperate(r) => Resident(handle[r].id)

\* C12: an operation through tap whose record is not in the store returns
\* nothing, without a panic, and leaves the store as it is: no record is
\* created and none is changed.  No operation through tap adds or drops a
\* record, and a record that changes is the record of a handle that operates.
C12_MissingRecord ==
    [][last'.op \in TapOps =>
          /\ DOMAIN store'.inner = DOMAIN store.inner
          /\ handle' = handle
          /\ NoRecordToOperateOn => (store' = store /\ last'.ret = NoRet)
          /\ \A k \in DOMAIN store.inner :
                store'.inner[k] # store.inner[k] =>
                   \E r \in Reqs : CanOperate(r) /\ UuidText(handle[r].id) = k]_vars

\* set, which returns Some(1) on a record, has returned nothing: the record of
\* the handle was evicted, and the store is still empty.
C12_Witness ==
    /\ last.op = "set"
    /\ last.ret = NoRet
    /\ DOMAIN store.inner = {}
    /\ \E r \in Reqs : handle[r].pc = "bound"

\* Request r is answered in this step.
Answered(r) == handle[r].pc = "bound" /\ handle'[r].pc = "done"

\* C13: destroy() sets the destroy flag of the record and nothing else: the
\* record stays in the store with its data, and a set after it still operates
\* on the record.  A record leaves the store only when its request is
\* answered, with destroy set (or when it is evicted), and the response that
\* answers a destroyed record creates no field: Data, Key and Store are REMOVE.
C13_DestroyAtResponse ==
    [][/\ last'.op = "destroy" =>
             /\ DOMAIN store'.inner = DOMAIN store.inner
             /\ \A k \in DOMAIN store.inner :
                   store'.inner[k] \in { store.inner[k],
                                         [store.inner[k] EXCEPT !.destroy = TRUE] }
             /\ EveryRecordToOperateOn =>
                   /\ \E k \in DOMAIN store.inner : store'.inner[k].destroy
                   /\ last'.ret = RetOne
       /\ (last'.op = "set"
             /\ \A r \in Reqs : CanOperate(r) =>
                    Resident(handle[r].id) /\ store.inner[UuidText(handle[r].id)].destroy)
            => /\ last'.ret = RetOne
               /\ \A r \in Reqs : CanOperate(r) =>
                     /\ UuidText(handle[r].id) \in DOMAIN store'.inner
                     /\ store'.inner[UuidText(handle[r].id)].destroy
       /\ DOMAIN store'.inner # DOMAIN store.inner =>
             \/ last'.op \in {"insert", "evict"}
             \/ /\ last'.op = "respond"
                /\ \E r \in Reqs :
                      /\ Answered(r)
                      /\ Resident(handle[r].id)
                      /\ store.inner[UuidText(handle[r].id)].destroy
                      /\ DOMAIN store'.inner = DOMAIN store.inner \ {UuidText(handle[r].id)}
       /\ \A r \in Reqs :
             (Answered(r) /\ Resident(handle[r].id)
                /\ store.inner[UuidText(handle[r].id)].destroy)
             => /\ UuidText(handle[r].id) \notin DOMAIN store'.inner
                /\ last'.created = {}
       /\ \A r \in Reqs :
             (Answered(r) /\ Resident(handle[r].id)
                /\ ~store.inner[UuidText(handle[r].id)].destroy)
             => /\ UuidText(handle[r].id) \in DOMAIN store'.inner
                /\ last'.created # {}]_vars

\* After destroy() the get of the same handle has returned the stored value:
\* every record in the store is marked destroy, and one is there.
C13_Witness ==
    /\ last.op = "get"
    /\ last.ret.some
    /\ DOMAIN store.inner # {}
    /\ \A k \in DOMAIN store.inner : store.inner[k].destroy

\* The map after the data of the record under id, if there is one, is emptied.
DataEmptied(inner, id) ==
    [k \in DOMAIN inner |->
       IF k = UuidText(id) THEN [inner[k] EXCEPT !.data = EmptyMap] ELSE inner[k]]

\* C14: clear_all() empties the data map of the handle's record at once,
\* whatever the backend does afterwards.  With persistence the backend's
\* clear is called: it clears the backend, or it fails and the failure is
\* fatal to the request (the unwrap panics).  Without persistence the backend
\* is not touched and no request fails.
C14_ClearAll ==
    [][last'.op = "clear_all" =>
          /\ \E r \in Reqs : CanOperate(r) /\ store'.inner = DataEmptied(store.inner, handle[r].id)
          /\ ~store.persistent => (handle' = handle /\ store'.db = store.db)
          /\ store.persistent =>
                \/ handle' = handle /\ store'.db = {}
                \/ /\ store'.db = store.db
                   /\ \E r \in Reqs :
                         /\ CanOperate(r)
                         /\ handle' = [handle EXCEPT ![r].pc = "panicked"]]_vars

\* The backend's clear failed: the request of session 1 panicked, the backend
\* still holds the record saved earlier, and the data map of the record, which
\* held an entry, is empty all the same.
C14_Witness ==
    /\ last.op = "clear_all"
    /\ store.persistent
    /\ store.db # {}
    /\ \A r \in Reqs : handle[r].pc # "done"
    /\ \E r \in Reqs :
          /\ handle[r] = [pc |-> "panicked", id |-> 1]
          /\ Resident(1)
          /\ DOMAIN store.inner[UuidText(1)].data = {}

\* C15: count() returns the number of records the backend holds when
\* persistence is enabled, 0 when the backend's call fails, and the number of
\* records in the in-memory map when persistence is disabled; it changes no
\* record and fails no request.
C15_Count ==
    [][last'.op = "count" =>
          /\ store' = store
          /\ handle' = handle
          /\ IF store.persistent
             THEN last'.n \in {Cardinality(store.db), 0}
             ELSE last'.n = Cardinality(DOMAIN store.inner)]_vars

\* The backend holds a record and its count failed: count() returned 0.
C15_Witness ==
    /\ last.op = "count"
    /\ store.persistent
    /\ store.db # {}
    /\ last.n = 0

(***************************************************************************)
(* SpecTap: two requests of one session, each making one call on its       *)
(* handle, in the steps of tap: get_mut takes the guard of the entry, func  *)
(* runs on the record behind the guard, the guard is dropped.              *)
(***************************************************************************)
\* The calls a request makes.
NoCall == [op |-> "", T |-> "", key |-> "", value |-> [t |-> "", v |-> ""], b |-> FALSE]

Calls ==
    { [NoCall EXCEPT !.op = "destroy"], [NoCall EXCEPT !.op = "clear_all"] }
    \cup { [NoCall EXCEPT !.op = op, !.b = b] :
             op \in {"set_longterm", "set_store"}, b \in BOOLEAN }
    \cup { [NoCall EXCEPT !.op = op, !.T = T, !.key = key] :
             op \in {"get", "get_remove"}, T \in Types, key \in DataKeys }
    \cup { [NoCall EXCEPT !.op = "set", !.key = key, !.value = value] :
             key \in DataKeys, value \in Values }
    \cup { [NoCall EXCEPT !.op = "remove", !.key = key] : key \in DataKeys }

\* The call run on the map: what the handle operation makes of it.
Run(call, inner, id) ==
    CASE call.op = "destroy"      -> destroy(inner, id)
      [] call.op = "set_longterm" -> set_longterm(inner, id, call.b)
      [] call.op = "set_store"    -> set_store(inner, id, call.b)
      [] call.op = "get"          -> get(inner, id, call.T, call.key)
      [] call.op = "get_remove"   -> get_remove(inner, id, call.T, call.key)
      [] call.op = "set"          -> set(inner, id, call.key, call.value)
      [] call.op = "remove"       -> remove(inner, id, call.key)
      [] call.op = "clear_all"    -> [inner |-> clear_all(inner, id), ret |-> NoRet]

\* The store the two requests meet: the used record of session 1, in memory.
TapStore ==
    [inner |-> [k \in {UuidText(1)} |-> UsedSessionData], key |-> StaticKey,
     persistent |-> FALSE, db |-> {}]

TapHandle ==
    [pc |-> "bound", id |-> 1, call |-> NoCall, seen |-> NewSessionData, ret |-> NoRet]

TapInit ==
    /\ store = TapStore
    /\ handle = [r \in Reqs |-> TapHandle]
    /\ last = NoOp
    /\ opcount = 0
    /\ aead = AeadStart
    /\ cfg = IdleConfig
    /\ cpc = "idle"
    /\ keystore = EmptyMap
    /\ emitted = NoEmitted
    /\ response = EmptyMap
    /\ request = NoRequest
    /\ extracted = NoExtracted

\* The requests that hold the guard of the entry under id.
Holders(id) == { q \in Reqs : handle[q].pc = "holding" /\ handle[q].id = id }

\* The entry's lock: get_mut returns its guard once no other is alive.
EntryFree(id) == Holders(id) = {}

\* The application calls an operation of the handle.
TapCall(r) ==
    /\ handle[r].pc = "bound"
    /\ \E call \in Calls : handle' = [handle EXCEPT ![r].pc = "calling", ![r].call = call]
    /\ last' = [NoOp EXCEPT !.op = "call"]
    /\ UNCHANGED <<store, opcount, aeadVars, codecVars>>

\* Fault variant of get_mut: the reference is handed out while another guard
\* of the entry is alive.
GetMut_unguarded(r) ==
    /\ handle[r].pc = "calling"
    /\ handle' = IF Resident(handle[r].id)
                 THEN [handle EXCEPT ![r].pc = "holding",
                                     ![r].seen = store.inner[UuidText(handle[r].id)]]
                 ELSE [handle EXCEPT ![r].pc = "returned", ![r].ret = NoRet]
    /\ last' = [NoOp EXCEPT !.op = "get_mut"]
    /\ UNCHANGED <<store, opcount, aeadVars, codecVars>>

\* if let Some(mut instance) = self.store.inner.get_mut(&id): the guard of the
\* entry is taken, after waiting for the entry to be free; with no entry tap
\* returns None.
GetMut(r) ==
    /\ handle[r].pc = "calling"
    /\ Resident(handle[r].id) => EntryFree(handle[r].id)
    /\ handle' = IF Resident(handle[r].id)
                 THEN [handle EXCEPT ![r].pc = "holding",
                                     ![r].seen = store.inner[UuidText(handle[r].id)]]
                 ELSE [handle EXCEPT ![r].pc = "returned", ![r].ret = NoRet]
    /\ last' = [NoOp EXCEPT !.op = "get_mut"]
    /\ UNCHANGED <<store, opcount, aeadVars, codecVars>>

\* What func can find behind its reference: the record; and, were another
\* reference to the record alive (a data race), the record as it was when
\* the reference was taken.
Visible(r) ==
    {store.inner[UuidText(handle[r].id)]}
    \cup (IF Holders(handle[r].id) # {r} THEN {handle[r].seen} ELSE {})

\* func(&mut instance), and the guard is dropped.
Func(r) ==
    /\ handle[r].pc = "holding"
    /\ \E rec \in Visible(r) :
          LET out == Run(handle[r].call, Put(store.inner, UuidText(handle[r].id), rec),
                         handle[r].id)
          IN  /\ store' = [store EXCEPT !.inner = out.inner]
              /\ handle' = [handle EXCEPT ![r].pc = "returned", ![r].ret = out.ret]
    /\ last' = [NoOp EXCEPT !.op = "func"]
    /\ UNCHANGED <<opcount, aeadVars, codecVars>>

TapNext == \E r \in Reqs : TapCall(r) \/ GetMut(r) \/ Func(r)

SpecTap == TapInit /\ [][TapNext]_vars

\* The requests whose call has returned, and the orders they can be put in.
Returned == { r \in Reqs : handle[r].pc = "returned" }
Orders(S) ==
    { o \in [1 .. Cardinality(S) -> S] : \A i, j \in DOMAIN o : o[i] = o[j] => i = j }

\* The calls of o, made one at a time in that order on inner, return what the
\* requests got and end in the store's map.
RECURSIVE Explains(_, _)
Explains(o, inner) ==
    IF o = <<>>
    THEN inner = store.inner
    ELSE LET out == Run(handle[Head(o)].call, inner, handle[Head(o)].id)
         IN  out.ret = handle[Head(o)].ret /\ Explains(Tail(o), out.inner)

\* C16: the calls of concurrent requests on one session are atomic: at most
\* one request holds the record at a time, the record and the results are
\* those of the returned calls made one at a time in some order, and two
\* get_remove(key) of a present key do not both return the value.
C16_Atomic ==
    /\ \A k \in Uuids : Cardinality(Holders(k)) <= 1
    /\ \E o \in Orders(Returned) : Explains(o, TapStore.inner)
    /\ \A r, q \in Returned :
          (r # q /\ handle[r].call.op = "get_remove" /\ handle[q].call.op = "get_remove"
             /\ handle[r].call.key = handle[q].call.key)
          => ~(handle[r].ret.some /\ handle[q].ret.some)

\* Two get_remove::<i64>("a") have returned: one the value, the other nothing.
C16_Witness ==
    /\ Returned = Reqs
    /\ \A r \in Reqs :
          handle[r].call = [NoCall EXCEPT !.op = "get_remove", !.T = "i64", !.key = "a"]
    /\ handle[1].ret = NoRet
    /\ handle[2].ret = Ret([t |-> "i64", v |-> "1"])

(***************************************************************************)
(* Further claims about the transport codec (SpecCodec).                   *)
(***************************************************************************)
\* C17: the Key field is created only under PerSession and the Store field
\* only under the opt-in policy: under Simple every response removes Key
\* (cookies: a tombstone; headers: no Key header), whatever destroy, opt_in
\* and storable, and with opt_in=false every response removes Store, also
\* when storable=true.
C17_KeyAndStoreOnlyWhen ==
    cpc = "response" =>
        /\ cfg.security_mode = "Simple" => FieldAction("Key") = "REMOVE"
        /\ ~cfg.opt_in => FieldAction("Store") = "REMOVE"
        /\ FieldAction("Key") = "CREATE" => cfg.security_mode = "PerSession"
        /\ FieldAction("Store") = "CREATE" => cfg.opt_in
        /\ cfg.rest_mode =>
              /\ cfg.security_mode = "Simple" => get_name("Key", cfg) \notin DOMAIN response
              /\ ~cfg.opt_in => get_name("Store", cfg) \notin DOMAIN response

\* The header variant under Simple with opt_in=false and storable=true: the
\* session id is emitted, Key and Store are not.
C17_Witness ==
    /\ cpc = "response"
    /\ cfg.rest_mode
    /\ cfg.security_mode = "Simple"
    /\ ~cfg.opt_in
    /\ emitted.storable /\ ~emitted.destroy
    /\ FieldAction("Data") = "CREATE"
    /\ FieldAction("Key") = "REMOVE"
    /\ FieldAction("Store") = "REMOVE"

(***************************************************************************)
(* Further claims about the handle operations (Spec).                      *)
(***************************************************************************)
\* C18: remove(key), set_longterm(b) and set_store(b) set the update flag on
\* every call against a resident record: whether or not key was in the data
\* map, whether or not the flag already had the value b.  No other record
\* changes.
C18_AlwaysDirty ==
    [][(last'.op \in {"remove", "set_longterm", "set_store"} /\ EveryRecordToOperateOn) =>
          \E r \in Reqs :
             /\ CanOperate(r)
             /\ UuidText(handle[r].id) \in DOMAIN store'.inner
             /\ store'.inner[UuidText(handle[r].id)].update
             /\ \A k \in DOMAIN store.inner :
                   k # UuidText(handle[r].id) => store'.inner[k] = store.inner[k]]_vars

\* The one operation so far was a remove on a new record, which held no
\* entry: the record is as it was but for the update flag.
C18_Witness ==
    /\ last.op = "remove"
    /\ opcount = 1
    /\ \E k \in DOMAIN store.inner :
          store.inner[k] = [NewSessionData EXCEPT !.update = TRUE]

(***************************************************************************)
(* SpecRace: the constructor run by two requests that carry no valid       *)
(* inbound id, against every populated store.                              *)
(***************************************************************************)
\* No session cookie, or one that is no id under any key.
InvalidJars == {EmptyMap, [n \in {SessionName} |-> Plain("junk")]}

NewInvalid(r) == NewFrom(r, InvalidJars)

RaceNext == \E r \in Reqs : NewInvalid(r) \/ Insert(r)

SpecRace == NewInit /\ [][RaceNext]_vars

\* C19: two requests without a valid inbound id that run the constructor
\* concurrently against one store are bound to distinct ids.
C19_DistinctIds ==
    \A r, q \in Reqs :
       (r # q /\ handle[r].pc # "start" /\ handle[q].pc # "start")
       => handle[r].id # handle[q].id

\* What the constructor's check gives: the id differs from that of a request
\* whose record was inserted before the constructor ran.
DistinctFromInserted ==
    [][\A r, q \in Reqs :
          (r # q /\ handle[r].pc = "start" /\ handle'[r].pc = "made"
             /\ handle[q].pc = "bound")
          => handle'[r].id # handle[q].id]_vars

(***************************************************************************)
(* The update flag (Spec).                                                 *)
(***************************************************************************)
\* The step changed the data map or the storable or longterm flag of the
\* record under k.
Changed(k) ==
    \/ store'.inner[k].data # store.inner[k].data
    \/ store'.inner[k].storable # store.inner[k].storable
    \/ store'.inner[k].longterm # store.inner[k].longterm

\* C20: every step that changes the data map or the storable or longterm
\* flag of a resident record leaves the record's update flag set, so a record
\* that differs from what it was when the flag was last clear is marked.
C20_ChangedIsDirty ==
    [][\A k \in (DOMAIN store.inner) \cap (DOMAIN store'.inner) :
          Changed(k) => store'.inner[k].update]_vars

\* What the code keeps: the same for every operation but get_remove and
\* clear_all.
ChangedIsDirtyButGetRemoveClearAll ==
    [][last'.op \notin {"get_remove", "clear_all"} =>
          \A k \in (DOMAIN store.inner) \cap (DOMAIN store'.inner) :
             Changed(k) => store'.inner[k].update]_vars

(***************************************************************************)
(* Frame and the destroy flag (Spec).                                      *)
(***************************************************************************)
\* The operations of the handle.
HandleOps == TapOps \cup {"clear_all", "count"}

\* The step changed the in-memory record under k, or the backend's record.
RecordTouched(k) ==
    \/ (k \in DOMAIN store.inner) # (k \in DOMAIN store'.inner)
    \/ /\ k \in DOMAIN store.inner
       /\ k \in DOMAIN store'.inner
       /\ store'.inner[k] # store.inner[k]

BackendTouched(k) == (k \in store.db) # (k \in store'.db)

\* Some request that can operate is bound to the session under k.
OperatedOn(k) == \E r \in Reqs : CanOperate(r) /\ UuidText(handle[r].id) = k

\* C21: no operation of the handle of one session changes what is held for
\* another: a step of a handle operation changes the in-memory record and the
\* backend's record only of a session some operating request is bound to.
C21_Frame ==
    [][last'.op \in HandleOps =>
          \A k \in UuidTexts : (RecordTouched(k) \/ BackendTouched(k)) => OperatedOn(k)]_vars

\* What the code keeps: the in-memory records of other sessions, in every
\* operation, and the backend in every operation but clear_all.
FrameButBackendClear ==
    [][last'.op \in HandleOps =>
          /\ \A k \in UuidTexts : RecordTouched(k) => OperatedOn(k)
          /\ last'.op # "clear_all" => store'.db = store.db]_vars

\* C22: the destroy flag is sticky: no operation of the handle resets it or
\* takes the record out of the store, and in no step does a record that stays
\* in the store lose the flag; the record goes with the flag set.
C22_DestroySticky ==
    [][/\ \A k \in (DOMAIN store.inner) \cap (DOMAIN store'.inner) :
             store.inner[k].destroy => store'.inner[k].destroy
       /\ last'.op \in HandleOps =>
             \A k \in DOMAIN store.inner :
                store.inner[k].destroy => k \in DOMAIN store'.inner]_vars

\* destroy() and then set_store(b) on a record that was clean: the record is
\* marked by set_store and still carries the destroy flag.
C22_Witness ==
    /\ last.op = "set_store"
    /\ opcount = 2
    /\ \E k \in DOMAIN store.inner : store.inner[k].destroy /\ store.inner[k].update

====
